---- MODULE Spec2Model ----
(***************************************************************************)
(* Ticket market: admission control and timed offers.                      *)
(* Model of src/convex/users.ts (updateEvent, create, getEventAvailability,*)
(* checkAvailability, joinWaitingList).  The handlers are Convex mutations *)
(* and queries: each one runs as a single serializable transaction, so     *)
(* each is one action.  expireOffer (internal.waitingList.expireOffer),    *)
(* the purchase flow and the scheduler's delivery are referenced by the    *)
(* source but live outside src/; they are modelled from spec.md.           *)
(***************************************************************************)
EXTENDS Integers, Sequences, FiniteSets, TLC

\* ---- bounds of the model ----
NumUsers == 2
NumEvents == 1
MaxTotal == 2
MaxTime == 3
MaxEntries == 3
MaxDeliveries == 2

\* DURATIONS.TICKET_OFFER, in clock ticks
TICKET_OFFER == 1

Users == 1..NumUsers
EventIds == 1..NumEvents

\* WAITING_LIST_STATUS and TICKET_STATUS
WAITING == "waiting"
OFFERED == "offered"
PURCHASED == "purchased"
EXPIRED == "expired"
VALID == "valid"
USED == "used"

VARIABLES events, tickets, waitingList, scheduled, now, last

vars == <<events, tickets, waitingList, scheduled, now, last>>

\* ---- helpers ----
Max(a, b) == IF a >= b THEN a ELSE b

\* e.offerExpiresAt ?? 0
OfferExpiresAtOrZero(e) ==
    IF "offerExpiresAt" \in DOMAIN e THEN e.offerExpiresAt ELSE 0

\* ctx.db.get(eventId) succeeds
EventExists(eventId) == eventId \in DOMAIN events

\* tickets by_event, filtered to VALID or USED, .length
CountPurchased(tk, eventId) ==
    Len(SelectSeq(tk, LAMBDA t : t.eventId = eventId
                                 /\ (t.status = VALID \/ t.status = USED)))

\* variant: an offer whose offerExpiresAt equals now still counts
CountActiveOffers_inclusive(wl, eventId, t) ==
    Len(SelectSeq(SelectSeq(wl, LAMBDA e : e.eventId = eventId /\ e.status = OFFERED),
                  LAMBDA e : OfferExpiresAtOrZero(e) >= t))

\* waitingList by_event_status (eventId, OFFERED), filtered to unexpired, .length
CountActiveOffers(wl, eventId, t) ==
    Len(SelectSeq(SelectSeq(wl, LAMBDA e : e.eventId = eventId /\ e.status = OFFERED),
                  LAMBDA e : OfferExpiresAtOrZero(e) > t))

\* getEventAvailability handler, for an existing event
getEventAvailability(eventId) ==
    LET purchasedCount == CountPurchased(tickets, eventId)
        activeOffers == CountActiveOffers(waitingList, eventId, now)
        totalReserved == purchasedCount + activeOffers
    IN  [ isSoldOut |-> totalReserved >= events[eventId].totalTickets,
          totalTickets |-> events[eventId].totalTickets,
          purchasedCount |-> purchasedCount,
          activeOffers |-> activeOffers,
          remainingTickets |-> Max(0, events[eventId].totalTickets - totalReserved) ]

\* variant: available when availableSpots >= 0
checkAvailability_offByOne(eventId) ==
    LET purchasedCount == CountPurchased(tickets, eventId)
        activeOffers == CountActiveOffers(waitingList, eventId, now)
        availableSpots == events[eventId].totalTickets - (purchasedCount + activeOffers)
    IN  [ available |-> availableSpots >= 0,
          availableSpots |-> availableSpots,
          totalTickets |-> events[eventId].totalTickets,
          purchasedCount |-> purchasedCount,
          activeOffers |-> activeOffers ]

\* variant: every OFFERED entry counts as active, expired or not
checkAvailability_ignoresExpiry(eventId) ==
    LET purchasedCount == CountPurchased(tickets, eventId)
        activeOffers == Len(SelectSeq(waitingList,
                            LAMBDA e : e.eventId = eventId /\ e.status = OFFERED))
        availableSpots == events[eventId].totalTickets - (purchasedCount + activeOffers)
    IN  [ available |-> availableSpots > 0,
          availableSpots |-> availableSpots,
          totalTickets |-> events[eventId].totalTickets,
          purchasedCount |-> purchasedCount,
          activeOffers |-> activeOffers ]

\* checkAvailability handler, for an existing event
checkAvailability(eventId) ==
    LET purchasedCount == CountPurchased(tickets, eventId)
        activeOffers == CountActiveOffers(waitingList, eventId, now)
        availableSpots == events[eventId].totalTickets - (purchasedCount + activeOffers)
    IN  [ available |-> availableSpots > 0,
          availableSpots |-> availableSpots,
          totalTickets |-> events[eventId].totalTickets,
          purchasedCount |-> purchasedCount,
          activeOffers |-> activeOffers ]

\* variant: the EXPIRED filter is missing, any earlier entry blocks the join
HasExistingEntry_anyStatus(userId, eventId) ==
    SelectSeq(waitingList, LAMBDA e : e.userId = userId /\ e.eventId = eventId) # << >>

\* variant: only a WAITING entry blocks the join
HasExistingEntry_waitingOnly(userId, eventId) ==
    SelectSeq(waitingList, LAMBDA e : e.userId = userId /\ e.eventId = eventId
                                      /\ e.status = WAITING) # << >>

\* variant: only a WAITING or OFFERED entry blocks the join
HasExistingEntry_pendingOnly(userId, eventId) ==
    SelectSeq(waitingList, LAMBDA e : e.userId = userId /\ e.eventId = eventId
                                      /\ (e.status = WAITING \/ e.status = OFFERED)) # << >>

\* by_user_event index filtered to status # EXPIRED, .first() is not null
HasExistingEntry(userId, eventId) ==
    SelectSeq(waitingList, LAMBDA e : e.userId = userId /\ e.eventId = eventId
                                      /\ e.status # EXPIRED) # << >>

\* ---- initial state: empty tables ----
Init ==
    /\ events = << >>
    /\ tickets = << >>
    /\ waitingList = << >>
    /\ scheduled = << >>
    /\ now = 1
    /\ last = [op |-> "init"]

\* ---- operations of src/convex/users.ts ----
create(totalTickets) ==
    /\ Len(events) < NumEvents
    /\ events' = Append(events, [totalTickets |-> totalTickets])
    /\ last' = [op |-> "create", eventId |-> Len(events) + 1]
    /\ UNCHANGED <<tickets, waitingList, scheduled, now>>

\* variant: the guard rejects totalTickets equal to the sold count too
updateEvent_rejectEqual(eventId, totalTickets) ==
    IF ~EventExists(eventId)
    THEN /\ last' = [op |-> "updateEvent", eventId |-> eventId,
                     totalTickets |-> totalTickets, result |-> "NotFound"]
         /\ UNCHANGED <<events, tickets, waitingList, scheduled, now>>
    ELSE IF totalTickets <= CountPurchased(tickets, eventId)
    THEN /\ last' = [op |-> "updateEvent", eventId |-> eventId,
                     totalTickets |-> totalTickets,
                     result |-> "CapacityReductionRejected"]
         /\ UNCHANGED <<events, tickets, waitingList, scheduled, now>>
    ELSE /\ events' = [events EXCEPT ![eventId].totalTickets = totalTickets]
         /\ last' = [op |-> "updateEvent", eventId |-> eventId,
                     totalTickets |-> totalTickets, result |-> "ok"]
         /\ UNCHANGED <<tickets, waitingList, scheduled, now>>

updateEvent(eventId, totalTickets) ==
    IF ~EventExists(eventId)
    THEN /\ last' = [op |-> "updateEvent", eventId |-> eventId,
                     totalTickets |-> totalTickets, result |-> "NotFound"]
         /\ UNCHANGED <<events, tickets, waitingList, scheduled, now>>
    ELSE IF totalTickets < CountPurchased(tickets, eventId)
    THEN /\ last' = [op |-> "updateEvent", eventId |-> eventId,
                     totalTickets |-> totalTickets,
                     result |-> "CapacityReductionRejected"]
         /\ UNCHANGED <<events, tickets, waitingList, scheduled, now>>
    ELSE /\ events' = [events EXCEPT ![eventId].totalTickets = totalTickets]
         /\ last' = [op |-> "updateEvent", eventId |-> eventId,
                     totalTickets |-> totalTickets, result |-> "ok"]
         /\ UNCHANGED <<tickets, waitingList, scheduled, now>>

queryEventAvailability(eventId) ==
    /\ last' = IF EventExists(eventId)
               THEN [op |-> "getEventAvailability", eventId |-> eventId,
                     result |-> "ok", ret |-> getEventAvailability(eventId)]
               ELSE [op |-> "getEventAvailability", eventId |-> eventId,
                     result |-> "NotFound"]
    /\ UNCHANGED <<events, tickets, waitingList, scheduled, now>>

\* variant: the query marks the lapsed offers it skips as EXPIRED
queryCheckAvailability_lazyExpire(eventId) ==
    /\ last' = IF EventExists(eventId)
               THEN [op |-> "checkAvailability", eventId |-> eventId,
                     result |-> "ok", ret |-> checkAvailability(eventId)]
               ELSE [op |-> "checkAvailability", eventId |-> eventId,
                     result |-> "NotFound"]
    /\ waitingList' = [i \in DOMAIN waitingList |->
                         IF /\ waitingList[i].eventId = eventId
                            /\ waitingList[i].status = OFFERED
                            /\ OfferExpiresAtOrZero(waitingList[i]) <= now
                         THEN [waitingList[i] EXCEPT !.status = EXPIRED]
                         ELSE waitingList[i]]
    /\ UNCHANGED <<events, tickets, scheduled, now>>

queryCheckAvailability(eventId) ==
    /\ last' = IF EventExists(eventId)
               THEN [op |-> "checkAvailability", eventId |-> eventId,
                     result |-> "ok", ret |-> checkAvailability(eventId)]
               ELSE [op |-> "checkAvailability", eventId |-> eventId,
                     result |-> "NotFound"]
    /\ UNCHANGED <<events, tickets, waitingList, scheduled, now>>

\* variant: a successful join first deletes the user's EXPIRED entries for the event
joinWaitingList_purgeExpired(eventId, userId) ==
    LET kept == SelectSeq(waitingList, LAMBDA e : ~(e.userId = userId /\ e.eventId = eventId
                                                     /\ e.status = EXPIRED))
    IN
    IF HasExistingEntry(userId, eventId)
    THEN /\ last' = [op |-> "joinWaitingList", eventId |-> eventId,
                     userId |-> userId, result |-> "AlreadyQueued"]
         /\ UNCHANGED <<events, tickets, waitingList, scheduled, now>>
    ELSE IF ~EventExists(eventId)
    THEN /\ last' = [op |-> "joinWaitingList", eventId |-> eventId,
                     userId |-> userId, result |-> "NotFound"]
         /\ UNCHANGED <<events, tickets, waitingList, scheduled, now>>
    ELSE /\ Len(waitingList) < MaxEntries
         /\ IF checkAvailability(eventId).available
            THEN /\ waitingList' = Append(kept,
                        [eventId |-> eventId, userId |-> userId, status |-> OFFERED,
                         offerExpiresAt |-> now + TICKET_OFFER])
                 /\ scheduled' = Append(scheduled,
                        [waitingListId |-> Len(kept) + 1, eventId |-> eventId,
                         runAt |-> now + TICKET_OFFER, runs |-> 0])
                 /\ last' = [op |-> "joinWaitingList", eventId |-> eventId,
                             userId |-> userId, result |-> "ok", status |-> OFFERED]
            ELSE /\ waitingList' = Append(kept,
                        [eventId |-> eventId, userId |-> userId, status |-> WAITING])
                 /\ scheduled' = scheduled
                 /\ last' = [op |-> "joinWaitingList", eventId |-> eventId,
                             userId |-> userId, result |-> "ok", status |-> WAITING]
         /\ UNCHANGED <<events, tickets, now>>

\* variant: the offer is inserted but its expiry task is not scheduled
joinWaitingList_noSchedule(eventId, userId) ==
    IF HasExistingEntry(userId, eventId)
    THEN /\ last' = [op |-> "joinWaitingList", eventId |-> eventId,
                     userId |-> userId, result |-> "AlreadyQueued"]
         /\ UNCHANGED <<events, tickets, waitingList, scheduled, now>>
    ELSE IF ~EventExists(eventId)
    THEN /\ last' = [op |-> "joinWaitingList", eventId |-> eventId,
                     userId |-> userId, result |-> "NotFound"]
         /\ UNCHANGED <<events, tickets, waitingList, scheduled, now>>
    ELSE /\ Len(waitingList) < MaxEntries
         /\ IF checkAvailability(eventId).available
            THEN /\ waitingList' = Append(waitingList,
                        [eventId |-> eventId, userId |-> userId, status |-> OFFERED,
                         offerExpiresAt |-> now + TICKET_OFFER])
                 /\ scheduled' = scheduled
                 /\ last' = [op |-> "joinWaitingList", eventId |-> eventId,
                             userId |-> userId, result |-> "ok", status |-> OFFERED]
            ELSE /\ waitingList' = Append(waitingList,
                        [eventId |-> eventId, userId |-> userId, status |-> WAITING])
                 /\ scheduled' = scheduled
                 /\ last' = [op |-> "joinWaitingList", eventId |-> eventId,
                             userId |-> userId, result |-> "ok", status |-> WAITING]
         /\ UNCHANGED <<events, tickets, now>>

\* variant: the expiry task is scheduled with no delay
joinWaitingList_runAfterZero(eventId, userId) ==
    IF HasExistingEntry(userId, eventId)
    THEN /\ last' = [op |-> "joinWaitingList", eventId |-> eventId,
                     userId |-> userId, result |-> "AlreadyQueued"]
         /\ UNCHANGED <<events, tickets, waitingList, scheduled, now>>
    ELSE IF ~EventExists(eventId)
    THEN /\ last' = [op |-> "joinWaitingList", eventId |-> eventId,
                     userId |-> userId, result |-> "NotFound"]
         /\ UNCHANGED <<events, tickets, waitingList, scheduled, now>>
    ELSE /\ Len(waitingList) < MaxEntries
         /\ IF checkAvailability(eventId).available
            THEN /\ waitingList' = Append(waitingList,
                        [eventId |-> eventId, userId |-> userId, status |-> OFFERED,
                         offerExpiresAt |-> now + TICKET_OFFER])
                 /\ scheduled' = Append(scheduled,
                        [waitingListId |-> Len(waitingList) + 1, eventId |-> eventId,
                         runAt |-> now, runs |-> 0])
                 /\ last' = [op |-> "joinWaitingList", eventId |-> eventId,
                             userId |-> userId, result |-> "ok", status |-> OFFERED]
            ELSE /\ waitingList' = Append(waitingList,
                        [eventId |-> eventId, userId |-> userId, status |-> WAITING])
                 /\ scheduled' = scheduled
                 /\ last' = [op |-> "joinWaitingList", eventId |-> eventId,
                             userId |-> userId, result |-> "ok", status |-> WAITING]
         /\ UNCHANGED <<events, tickets, now>>

\* variant: the event is not looked up, a join on a missing event is queued
joinWaitingList_noEventCheck(eventId, userId) ==
    IF HasExistingEntry(userId, eventId)
    THEN /\ last' = [op |-> "joinWaitingList", eventId |-> eventId,
                     userId |-> userId, result |-> "AlreadyQueued"]
         /\ UNCHANGED <<events, tickets, waitingList, scheduled, now>>
    ELSE IF ~EventExists(eventId)
    THEN /\ Len(waitingList) < MaxEntries
         /\ waitingList' = Append(waitingList,
                [eventId |-> eventId, userId |-> userId, status |-> WAITING])
         /\ last' = [op |-> "joinWaitingList", eventId |-> eventId,
                     userId |-> userId, result |-> "ok", status |-> WAITING]
         /\ UNCHANGED <<events, tickets, scheduled, now>>
    ELSE /\ Len(waitingList) < MaxEntries
         /\ IF checkAvailability(eventId).available
            THEN /\ waitingList' = Append(waitingList,
                        [eventId |-> eventId, userId |-> userId, status |-> OFFERED,
                         offerExpiresAt |-> now + TICKET_OFFER])
                 /\ scheduled' = Append(scheduled,
                        [waitingListId |-> Len(waitingList) + 1, eventId |-> eventId,
                         runAt |-> now + TICKET_OFFER, runs |-> 0])
                 /\ last' = [op |-> "joinWaitingList", eventId |-> eventId,
                             userId |-> userId, result |-> "ok", status |-> OFFERED]
            ELSE /\ waitingList' = Append(waitingList,
                        [eventId |-> eventId, userId |-> userId, status |-> WAITING])
                 /\ scheduled' = scheduled
                 /\ last' = [op |-> "joinWaitingList", eventId |-> eventId,
                             userId |-> userId, result |-> "ok", status |-> WAITING]
         /\ UNCHANGED <<events, tickets, now>>

\* variant: offerExpiresAt is set to now, the offer duration is not added
joinWaitingList_noTtl(eventId, userId) ==
    IF HasExistingEntry(userId, eventId)
    THEN /\ last' = [op |-> "joinWaitingList", eventId |-> eventId,
                     userId |-> userId, result |-> "AlreadyQueued"]
         /\ UNCHANGED <<events, tickets, waitingList, scheduled, now>>
    ELSE IF ~EventExists(eventId)
    THEN /\ last' = [op |-> "joinWaitingList", eventId |-> eventId,
                     userId |-> userId, result |-> "NotFound"]
         /\ UNCHANGED <<events, tickets, waitingList, scheduled, now>>
    ELSE /\ Len(waitingList) < MaxEntries
         /\ IF checkAvailability(eventId).available
            THEN /\ waitingList' = Append(waitingList,
                        [eventId |-> eventId, userId |-> userId, status |-> OFFERED,
                         offerExpiresAt |-> now])
                 /\ scheduled' = Append(scheduled,
                        [waitingListId |-> Len(waitingList) + 1, eventId |-> eventId,
                         runAt |-> now + TICKET_OFFER, runs |-> 0])
                 /\ last' = [op |-> "joinWaitingList", eventId |-> eventId,
                             userId |-> userId, result |-> "ok", status |-> OFFERED]
            ELSE /\ waitingList' = Append(waitingList,
                        [eventId |-> eventId, userId |-> userId, status |-> WAITING])
                 /\ scheduled' = scheduled
                 /\ last' = [op |-> "joinWaitingList", eventId |-> eventId,
                             userId |-> userId, result |-> "ok", status |-> WAITING]
         /\ UNCHANGED <<events, tickets, now>>

joinWaitingList(eventId, userId) ==
    IF HasExistingEntry(userId, eventId)
    THEN /\ last' = [op |-> "joinWaitingList", eventId |-> eventId,
                     userId |-> userId, result |-> "AlreadyQueued"]
         /\ UNCHANGED <<events, tickets, waitingList, scheduled, now>>
    ELSE IF ~EventExists(eventId)
    THEN /\ last' = [op |-> "joinWaitingList", eventId |-> eventId,
                     userId |-> userId, result |-> "NotFound"]
         /\ UNCHANGED <<events, tickets, waitingList, scheduled, now>>
    ELSE /\ Len(waitingList) < MaxEntries
         /\ IF checkAvailability(eventId).available
            THEN /\ waitingList' = Append(waitingList,
                        [eventId |-> eventId, userId |-> userId, status |-> OFFERED,
                         offerExpiresAt |-> now + TICKET_OFFER])
                 /\ scheduled' = Append(scheduled,
                        [waitingListId |-> Len(waitingList) + 1, eventId |-> eventId,
                         runAt |-> now + TICKET_OFFER, runs |-> 0])
                 /\ last' = [op |-> "joinWaitingList", eventId |-> eventId,
                             userId |-> userId, result |-> "ok", status |-> OFFERED]
            ELSE /\ waitingList' = Append(waitingList,
                        [eventId |-> eventId, userId |-> userId, status |-> WAITING])
                 /\ scheduled' = scheduled
                 /\ last' = [op |-> "joinWaitingList", eventId |-> eventId,
                             userId |-> userId, result |-> "ok", status |-> WAITING]
         /\ UNCHANGED <<events, tickets, now>>

\* ---- collaborators outside src/, from spec.md ----
\* earliest still-WAITING entries of the event, in creation order
WaitingIds(wl, eventId) ==
    {i \in DOMAIN wl : wl[i].eventId = eventId /\ wl[i].status = WAITING}

\* variant: the most recent WAITING entry is taken
Earliest_newest(S) == CHOOSE i \in S : \A j \in S : i >= j

Earliest(S) == CHOOSE i \in S : \A j \in S : i <= j

\* variant: the status check of step 1 is missing
expireOffer_noStatusCheck(k) ==
    LET t == scheduled[k]
        id == t.waitingListId
        wl1 == [waitingList EXCEPT ![id].status = EXPIRED]
        cand == WaitingIds(wl1, t.eventId)
        remaining == Max(0, events[t.eventId].totalTickets
                            - (CountPurchased(tickets, t.eventId)
                               + CountActiveOffers(wl1, t.eventId, now)))
    IN  /\ t.runs < MaxDeliveries
        /\ now >= t.runAt
        /\ id \in DOMAIN waitingList
        /\ EventExists(t.eventId)
        /\ IF cand # {} /\ remaining > 0
           THEN LET p == Earliest(cand)
                IN  /\ waitingList' = [wl1 EXCEPT ![p] =
                            [eventId |-> wl1[p].eventId, userId |-> wl1[p].userId,
                             status |-> OFFERED, offerExpiresAt |-> now + TICKET_OFFER]]
                    /\ scheduled' = Append([scheduled EXCEPT ![k].runs = @ + 1],
                            [waitingListId |-> p, eventId |-> t.eventId,
                             runAt |-> now + TICKET_OFFER, runs |-> 0])
                    /\ last' = [op |-> "expireOffer", waitingListId |-> id,
                                result |-> "expired", promoted |-> p]
                    /\ UNCHANGED <<events, tickets, now>>
           ELSE /\ waitingList' = wl1
                /\ scheduled' = [scheduled EXCEPT ![k].runs = @ + 1]
                /\ last' = [op |-> "expireOffer", waitingListId |-> id,
                            result |-> "expired", promoted |-> 0]
                /\ UNCHANGED <<events, tickets, now>>

\* spec 4.3: the scheduler delivers task k (at or after its due time)
expireOffer(k) ==
    LET t == scheduled[k]
        id == t.waitingListId
        wl1 == [waitingList EXCEPT ![id].status = EXPIRED]
        cand == WaitingIds(wl1, t.eventId)
        remaining == Max(0, events[t.eventId].totalTickets
                            - (CountPurchased(tickets, t.eventId)
                               + CountActiveOffers(wl1, t.eventId, now)))
    IN  /\ t.runs < MaxDeliveries
        /\ now >= t.runAt
        /\ IF id \notin DOMAIN waitingList \/ ~EventExists(t.eventId)
           THEN /\ scheduled' = [scheduled EXCEPT ![k].runs = @ + 1]
                /\ last' = [op |-> "expireOffer", waitingListId |-> id, result |-> "dropped"]
                /\ UNCHANGED <<events, tickets, waitingList, now>>
           ELSE IF waitingList[id].status # OFFERED
           THEN /\ scheduled' = [scheduled EXCEPT ![k].runs = @ + 1]
                /\ last' = [op |-> "expireOffer", waitingListId |-> id, result |-> "noop"]
                /\ UNCHANGED <<events, tickets, waitingList, now>>
           ELSE IF cand # {} /\ remaining > 0
           THEN LET p == Earliest(cand)
                IN  /\ waitingList' = [wl1 EXCEPT ![p] =
                            [eventId |-> wl1[p].eventId, userId |-> wl1[p].userId,
                             status |-> OFFERED, offerExpiresAt |-> now + TICKET_OFFER]]
                    /\ scheduled' = Append([scheduled EXCEPT ![k].runs = @ + 1],
                            [waitingListId |-> p, eventId |-> t.eventId,
                             runAt |-> now + TICKET_OFFER, runs |-> 0])
                    /\ last' = [op |-> "expireOffer", waitingListId |-> id,
                                result |-> "expired", promoted |-> p]
                    /\ UNCHANGED <<events, tickets, now>>
           ELSE /\ waitingList' = wl1
                /\ scheduled' = [scheduled EXCEPT ![k].runs = @ + 1]
                /\ last' = [op |-> "expireOffer", waitingListId |-> id,
                            result |-> "expired", promoted |-> 0]
                /\ UNCHANGED <<events, tickets, now>>

\* variant: the purchase does not look at the entry's status
purchaseTicket_noStatusCheck(id) ==
    /\ id \in DOMAIN waitingList
    /\ Len(tickets) < MaxEntries
    /\ tickets' = Append(tickets, [eventId |-> waitingList[id].eventId,
                                   status |-> VALID, waitingListId |-> id])
    /\ waitingList' = [waitingList EXCEPT ![id].status = PURCHASED]
    /\ last' = [op |-> "purchaseTicket", waitingListId |-> id]
    /\ UNCHANGED <<events, scheduled, now>>

\* spec 6: purchase completion issues the ticket and marks the entry PURCHASED
\* in one atomic unit
purchaseTicket(id) ==
    /\ id \in DOMAIN waitingList
    /\ waitingList[id].status = OFFERED
    /\ tickets' = Append(tickets, [eventId |-> waitingList[id].eventId,
                                   status |-> VALID, waitingListId |-> id])
    /\ waitingList' = [waitingList EXCEPT ![id].status = PURCHASED]
    /\ last' = [op |-> "purchaseTicket", waitingListId |-> id]
    /\ UNCHANGED <<events, scheduled, now>>

\* spec 3: a VALID ticket becomes USED
useTicket(i) ==
    /\ i \in DOMAIN tickets
    /\ tickets[i].status = VALID
    /\ tickets' = [tickets EXCEPT ![i].status = USED]
    /\ last' = [op |-> "useTicket", ticket |-> i]
    /\ UNCHANGED <<events, waitingList, scheduled, now>>

\* Date.now() advances
Tick ==
    /\ now < MaxTime
    /\ now' = now + 1
    /\ last' = [op |-> "tick"]
    /\ UNCHANGED <<events, tickets, waitingList, scheduled>>

Next ==
    \/ \E n \in 0..MaxTotal : create(n)
    \/ \E e \in EventIds, n \in 0..MaxTotal : updateEvent(e, n)
    \/ \E e \in EventIds : queryEventAvailability(e)
    \/ \E e \in EventIds : queryCheckAvailability(e)
    \/ \E e \in EventIds, u \in Users : joinWaitingList(e, u)
    \/ \E k \in DOMAIN scheduled : expireOffer(k)
    \/ \E id \in DOMAIN waitingList : purchaseTicket(id)
    \/ \E i \in DOMAIN tickets : useTicket(i)
    \/ Tick

Spec == Init /\ [][Next]_vars


\* Fixed capacity: an event with totalTickets = n on which k =< n users have
\* already joined and completed their purchase at the initial time; from there
\* only joins, the passage of time and expiry deliveries happen.
InitJoin ==
    \E n \in 0..MaxTotal, k \in 0..NumUsers :
        /\ k <= n
        /\ k < MaxEntries
        /\ events = << [totalTickets |-> n] >>
        /\ waitingList = [i \in 1..k |-> [eventId |-> 1, userId |-> i, status |-> PURCHASED,
                                          offerExpiresAt |-> 1 + TICKET_OFFER]]
        /\ tickets = [i \in 1..k |-> [eventId |-> 1, status |-> VALID, waitingListId |-> i]]
        /\ scheduled = [i \in 1..k |-> [waitingListId |-> i, eventId |-> 1,
                                        runAt |-> 1 + TICKET_OFFER, runs |-> 0]]
        /\ now = 1
        /\ last = [op |-> "init"]

NextJoin ==
    \/ \E e \in EventIds, u \in Users : joinWaitingList(e, u)
    \/ \E k \in DOMAIN scheduled : expireOffer(k)
    \/ Tick

SpecJoin == InitJoin /\ [][NextJoin]_vars

\* ---- vocabulary of the claims ----
TicketsSold(e) ==
    {i \in DOMAIN tickets : tickets[i].eventId = e /\ tickets[i].status \in {VALID, USED}}

UnexpiredOffers(e) ==
    {i \in DOMAIN waitingList :
        /\ waitingList[i].eventId = e
        /\ waitingList[i].status = OFFERED
        /\ "offerExpiresAt" \in DOMAIN waitingList[i]
        /\ waitingList[i].offerExpiresAt > now}

PurchasedEntries(e) ==
    {i \in DOMAIN waitingList : waitingList[i].eventId = e /\ waitingList[i].status = PURCHASED}

EntriesOf(u, e) ==
    {i \in DOMAIN waitingList : waitingList[i].userId = u /\ waitingList[i].eventId = e}

\* C1: with totalTickets fixed, under any interleaving of atomic joins, the
\* entries that are OFFERED-and-unexpired or PURCHASED never outnumber
\* totalTickets.
C1_NoOversellUnderJoins ==
    \A e \in DOMAIN events :
        Cardinality(UnexpiredOffers(e) \cup PurchasedEntries(e)) <= events[e].totalTickets

\* two joins met remaining = 1: the first holds the live offer, the second waits
C1_Witness ==
    /\ last.op = "joinWaitingList" /\ last.result = "ok" /\ last.status = WAITING
    /\ Len(waitingList) >= 2
    /\ LET n == Len(waitingList)
       IN  /\ n - 1 \in UnexpiredOffers(last.eventId)
           /\ waitingList[n].status = WAITING
           /\ Cardinality(UnexpiredOffers(last.eventId) \cup PurchasedEntries(last.eventId))
                = events[last.eventId].totalTickets

\* C2: invariant I1: sold tickets plus unexpired offers never exceed
\* totalTickets, under joins, expiry, purchase completion, updateEvent and time.
C2_I1 ==
    \A e \in DOMAIN events :
        Cardinality(TicketsSold(e)) + Cardinality(UnexpiredOffers(e)) <= events[e].totalTickets

\* C3: a join while the user's entry is WAITING or OFFERED fails with
\* AlreadyQueued and inserts nothing; once every entry of the user for the
\* event is EXPIRED, a join succeeds and appends a new entry.
C3_Step ==
    \A e \in EventIds, u \in Users :
        (last'.op = "joinWaitingList" /\ last'.eventId = e /\ last'.userId = u) =>
            /\ (\E i \in EntriesOf(u, e) : waitingList[i].status \in {WAITING, OFFERED})
                  => (last'.result = "AlreadyQueued" /\ waitingList' = waitingList)
            /\ (EntriesOf(u, e) # {} /\ \A i \in EntriesOf(u, e) : waitingList[i].status = EXPIRED)
                  => /\ last'.result = "ok"
                     /\ Len(waitingList') = Len(waitingList) + 1
                     /\ SubSeq(waitingList', 1, Len(waitingList)) = waitingList
                     /\ waitingList'[Len(waitingList')].userId = u
                     /\ waitingList'[Len(waitingList')].eventId = e
                     /\ waitingList'[Len(waitingList')].status \in {WAITING, OFFERED}

C3_DuplicateJoin == [][C3_Step]_vars

\* a user re-joined after their entry expired
C3_Witness ==
    /\ last.op = "joinWaitingList" /\ last.result = "ok"
    /\ \E i \in EntriesOf(last.userId, last.eventId) :
          /\ i < Len(waitingList)
          /\ waitingList[i].status = EXPIRED
    /\ waitingList[Len(waitingList)].userId = last.userId

\* C4: invariant I2: at most one entry that is not EXPIRED per (userId, eventId).
C4_I2 ==
    \A e \in EventIds, u \in Users :
        Cardinality({i \in EntriesOf(u, e) : waitingList[i].status # EXPIRED}) <= 1

\* a pair with two entries, one of them active
C4_Witness ==
    \E e \in EventIds, u \in Users :
        /\ Cardinality(EntriesOf(u, e)) >= 2
        /\ \E i \in EntriesOf(u, e) : waitingList[i].status # EXPIRED

\* C5: getEventAvailability returns purchasedCount = #tickets VALID or USED,
\* activeOffers = #entries OFFERED with offerExpiresAt > now, remainingTickets =
\* max(0, totalTickets - (purchasedCount + activeOffers)) and isSoldOut =
\* (purchasedCount + activeOffers >= totalTickets).
C5_Ledger ==
    (last.op = "getEventAvailability" /\ last.result = "ok") =>
        LET e == last.eventId
            p == Cardinality(TicketsSold(e))
            a == Cardinality(UnexpiredOffers(e))
        IN  /\ last.ret.purchasedCount = p
            /\ last.ret.activeOffers = a
            /\ last.ret.remainingTickets
                 = (IF events[e].totalTickets - (p + a) > 0
                    THEN events[e].totalTickets - (p + a) ELSE 0)
            /\ last.ret.isSoldOut = (p + a >= events[e].totalTickets)

\* queried with a sold ticket and an offer whose offerExpiresAt equals now
C5_Witness ==
    /\ last.op = "getEventAvailability" /\ last.result = "ok"
    /\ last.ret.purchasedCount >= 1
    /\ \E i \in DOMAIN waitingList :
          /\ waitingList[i].eventId = last.eventId
          /\ waitingList[i].status = OFFERED
          /\ waitingList[i].offerExpiresAt = now

\* C6: checkAvailability's availableSpots equals the ledger's remaining (never
\* negative) and its available flag equals the negation of isSoldOut.
C6_Wrapper ==
    (last.op = "checkAvailability" /\ last.result = "ok") =>
        /\ last.ret.availableSpots = getEventAvailability(last.eventId).remainingTickets
        /\ last.ret.availableSpots >= 0
        /\ last.ret.available = ~getEventAvailability(last.eventId).isSoldOut

\* C7: updateEvent below the count of VALID+USED tickets is rejected and leaves
\* the event unchanged; at or above it, it succeeds and sets totalTickets, so
\* totalTickets >= sold right after every successful update.
C7_Step ==
    \A e \in DOMAIN events :
        (last'.op = "updateEvent" /\ last'.eventId = e) =>
            IF last'.totalTickets < Cardinality(TicketsSold(e))
            THEN last'.result = "CapacityReductionRejected" /\ events' = events
            ELSE /\ last'.result = "ok"
                 /\ events'[e].totalTickets = last'.totalTickets
                 /\ events'[e].totalTickets >= Cardinality(TicketsSold(e))
                 /\ tickets' = tickets

C7_CapacityReductionGuard == [][C7_Step]_vars

\* an update below the sold count was rejected
C7_Witness ==
    /\ last.op = "updateEvent" /\ last.result = "CapacityReductionRejected"
    /\ last.totalTickets < Cardinality(TicketsSold(last.eventId))
    /\ events[last.eventId].totalTickets >= Cardinality(TicketsSold(last.eventId))

\* C8: expireOffer is idempotent: a delivery for an entry that is not OFFERED
\* changes nothing, and a repeated delivery of the same task leaves the entry in
\* the terminal status the first delivery left it in and promotes nobody.
C8_Step ==
    \A k \in DOMAIN scheduled :
        (last'.op = "expireOffer" /\ scheduled'[k].runs = scheduled[k].runs + 1
         /\ scheduled[k].waitingListId \in DOMAIN waitingList) =>
            LET id == scheduled[k].waitingListId
            IN  /\ waitingList[id].status # OFFERED =>
                      /\ waitingList' = waitingList
                      /\ Len(scheduled') = Len(scheduled)
                      /\ UNCHANGED <<events, tickets>>
                /\ scheduled[k].runs >= 1 =>
                      /\ waitingList[id].status \in {EXPIRED, PURCHASED}
                      /\ waitingList' = waitingList
                      /\ Len(scheduled') = Len(scheduled)
                /\ waitingList'[id].status \in {EXPIRED, PURCHASED}

C8_IdempotentExpiry == [][C8_Step]_vars

\* a task delivered twice for an entry it expired, while another entry of the
\* event was WAITING at the second delivery
C8_Witness ==
    /\ last.op = "expireOffer" /\ last.result = "noop"
    /\ \E k \in DOMAIN scheduled :
          /\ scheduled[k].waitingListId = last.waitingListId
          /\ scheduled[k].runs = 2
          /\ waitingList[last.waitingListId].status = EXPIRED
          /\ \E j \in DOMAIN waitingList :
                /\ waitingList[j].eventId = scheduled[k].eventId
                /\ waitingList[j].status = WAITING

\* C9: purchase completion and the expiry trigger exclude each other: a
\* PURCHASED entry is never later EXPIRED, an EXPIRED entry is never later
\* PURCHASED, and an entry has a ticket exactly when it is PURCHASED.
C9_Step ==
    /\ \A i \in DOMAIN waitingList :
          /\ waitingList[i].status = PURCHASED => waitingList'[i].status # EXPIRED
          /\ waitingList[i].status = EXPIRED => waitingList'[i].status # PURCHASED
    /\ \A t \in DOMAIN tickets' :
          /\ tickets'[t].waitingListId \in DOMAIN waitingList'
          /\ waitingList'[tickets'[t].waitingListId].status = PURCHASED
          /\ \A t2 \in DOMAIN tickets' :
                tickets'[t2].waitingListId = tickets'[t].waitingListId => t2 = t
    /\ \A i \in DOMAIN waitingList' :
          waitingList'[i].status = PURCHASED =>
              \E t \in DOMAIN tickets' : tickets'[t].waitingListId = i

C9_PurchaseOrExpire == [][C9_Step]_vars

\* the purchase won the race: the expiry trigger was delivered for an entry
\* that was already PURCHASED
C9_Witness ==
    \E k \in DOMAIN scheduled :
        /\ scheduled[k].runs >= 1
        /\ waitingList[scheduled[k].waitingListId].status = PURCHASED
        /\ last.op = "expireOffer" /\ last.waitingListId = scheduled[k].waitingListId

\* C10: an OFFERED entry stays OFFERED or becomes EXPIRED or PURCHASED, never
\* WAITING; a PURCHASED entry never changes status; entries are never deleted.
C10_Step ==
    /\ Len(waitingList') >= Len(waitingList)
    /\ \A i \in DOMAIN waitingList :
          /\ waitingList'[i].eventId = waitingList[i].eventId
          /\ waitingList'[i].userId = waitingList[i].userId
          /\ waitingList[i].status = OFFERED =>
                waitingList'[i].status \in {OFFERED, EXPIRED, PURCHASED}
          /\ waitingList[i].status = PURCHASED => waitingList'[i].status = PURCHASED

C10_Lifecycle == [][C10_Step]_vars

\* offers were made and one ended PURCHASED, one EXPIRED, one is still OFFERED
C10_Witness ==
    /\ \E i \in DOMAIN waitingList : waitingList[i].status = PURCHASED
    /\ \E i \in DOMAIN waitingList : waitingList[i].status = EXPIRED
    /\ \E i \in DOMAIN waitingList : waitingList[i].status = OFFERED

\* A queue behind one offer: an event with totalTickets = 1 on which one user
\* holds the offer and three more users joined, in this order, and wait.
InitFifo ==
    /\ events = << [totalTickets |-> 1] >>
    /\ tickets = << >>
    /\ waitingList = << [eventId |-> 1, userId |-> 1, status |-> OFFERED,
                         offerExpiresAt |-> 1 + TICKET_OFFER],
                        [eventId |-> 1, userId |-> NumUsers + 1, status |-> WAITING],
                        [eventId |-> 1, userId |-> NumUsers + 2, status |-> WAITING],
                        [eventId |-> 1, userId |-> NumUsers + 3, status |-> WAITING] >>
    /\ scheduled = << [waitingListId |-> 1, eventId |-> 1,
                       runAt |-> 1 + TICKET_OFFER, runs |-> 0] >>
    /\ now = 1
    /\ last = [op |-> "init"]

NextFifo ==
    \/ \E e \in EventIds, n \in 0..MaxTotal : updateEvent(e, n)
    \/ \E e \in EventIds, u \in Users : joinWaitingList(e, u)
    \/ \E k \in DOMAIN scheduled : expireOffer(k)
    \/ \E id \in DOMAIN waitingList : purchaseTicket(id)
    \/ Tick

SpecFifo == InitFifo /\ [][NextFifo]_vars

\* C11: promotion is FIFO: the entry an expiry promotes is the earliest created
\* still-WAITING entry of the event, it is the only one promoted, and it is
\* promoted only if the re-computed remaining capacity is > 0.
C11_Step ==
    \A i \in DOMAIN waitingList :
        (waitingList[i].status = WAITING /\ waitingList'[i].status = OFFERED) =>
            LET e == waitingList[i].eventId
            IN  /\ last'.op = "expireOffer" /\ last'.result = "expired"
                /\ last'.promoted = i
                /\ waitingList[last'.waitingListId].eventId = e
                /\ \A j \in DOMAIN waitingList :
                      (waitingList[j].eventId = e /\ waitingList[j].status = WAITING) => i <= j
                /\ \A j \in DOMAIN waitingList :
                      (j # i /\ waitingList[j].status = WAITING) => waitingList'[j].status = WAITING
                /\ events[e].totalTickets
                     - (Cardinality(TicketsSold(e))
                        + Cardinality(UnexpiredOffers(e) \ {last'.waitingListId})) > 0

C11_FifoPromotion == [][C11_Step]_vars

\* with A, B, C waiting in this order, the freed slot went to A
C11_Witness ==
    /\ last.op = "expireOffer" /\ last.result = "expired" /\ last.promoted = 2
    /\ Len(waitingList) = 4
    /\ waitingList[1].status = EXPIRED
    /\ waitingList[2].status = OFFERED
    /\ waitingList[3].status = WAITING
    /\ waitingList[4].status = WAITING

\* C12: a successful join at time now appends exactly one entry for the pair:
\* OFFERED with offerExpiresAt = now + OFFER_TTL when the ledger's remaining is
\* > 0, else WAITING without expiry; the returned status is the entry's status.
C12_Step ==
    \A e \in EventIds, u \in Users :
        (last'.op = "joinWaitingList" /\ last'.result = "ok"
         /\ last'.eventId = e /\ last'.userId = u) =>
            LET n == Len(waitingList)
                remaining == events[e].totalTickets
                               - (Cardinality(TicketsSold(e)) + Cardinality(UnexpiredOffers(e)))
            IN  /\ Len(waitingList') = n + 1
                /\ SubSeq(waitingList', 1, n) = waitingList
                /\ IF remaining > 0
                   THEN waitingList'[n + 1] = [eventId |-> e, userId |-> u, status |-> OFFERED,
                                               offerExpiresAt |-> now + TICKET_OFFER]
                   ELSE waitingList'[n + 1] = [eventId |-> e, userId |-> u, status |-> WAITING]
                /\ last'.status = waitingList'[n + 1].status

C12_JoinInsertsOne == [][C12_Step]_vars

\* a join was offered the last remaining ticket of an event with a sold one
C12_Witness ==
    /\ last.op = "joinWaitingList" /\ last.result = "ok" /\ last.status = OFFERED
    /\ waitingList[Len(waitingList)].status = OFFERED
    /\ waitingList[Len(waitingList)].offerExpiresAt = now + TICKET_OFFER
    /\ Cardinality(TicketsSold(last.eventId)) >= 1
    /\ Cardinality(TicketsSold(last.eventId)) + Cardinality(UnexpiredOffers(last.eventId))
         = events[last.eventId].totalTickets

TasksFor(sch, i) == {k \in DOMAIN sch : sch[k].waitingListId = i}

\* every entry that was ever offered has exactly one expiry task, due at its
\* offerExpiresAt and naming its event; every task names an existing entry of
\* its event
TasksMatchOffers(wl, sch) ==
    /\ \A i \in DOMAIN wl :
          "offerExpiresAt" \in DOMAIN wl[i] =>
              /\ Cardinality(TasksFor(sch, i)) = 1
              /\ \A k \in TasksFor(sch, i) :
                    sch[k].runAt = wl[i].offerExpiresAt /\ sch[k].eventId = wl[i].eventId
    /\ \A k \in DOMAIN sch :
          /\ sch[k].waitingListId \in DOMAIN wl
          /\ wl[sch[k].waitingListId].eventId = sch[k].eventId

\* C13 as stated: offers and expiry tasks are recorded together, every task
\* names an existing entry of its event, and no expiry task is ever registered
\* for an entry that was created as WAITING.
C13_OriginalStep ==
    /\ TasksMatchOffers(waitingList', scheduled')
    /\ \A k \in DOMAIN scheduled' \ DOMAIN scheduled :
          ~ (/\ scheduled'[k].waitingListId \in DOMAIN waitingList
             /\ waitingList[scheduled'[k].waitingListId].status = WAITING)

C13_Original == [][C13_OriginalStep]_vars

\* C13 as amended: offers and expiry tasks are recorded together, every task
\* names an existing entry of its event, joinWaitingList registers no task for
\* an entry it creates as WAITING, and an entry has no task while it is WAITING:
\* it gets its single task in the promotion step that makes it OFFERED.
C13_Step ==
    /\ TasksMatchOffers(waitingList', scheduled')
    /\ \A i \in DOMAIN waitingList' :
          waitingList'[i].status = WAITING => TasksFor(scheduled', i) = {}
    /\ (last'.op = "joinWaitingList" /\ last'.result = "ok" /\ last'.status = WAITING)
          => scheduled' = scheduled
    /\ (last'.op = "joinWaitingList" /\ last'.result = "ok" /\ last'.status = OFFERED)
          => /\ Len(scheduled') = Len(scheduled) + 1
             /\ scheduled'[Len(scheduled')].waitingListId = Len(waitingList')
    /\ \A k \in DOMAIN scheduled' \ DOMAIN scheduled :
          (/\ scheduled'[k].waitingListId \in DOMAIN waitingList
           /\ waitingList[scheduled'[k].waitingListId].status = WAITING)
             => /\ last'.op = "expireOffer"
                /\ last'.promoted = scheduled'[k].waitingListId
                /\ waitingList'[scheduled'[k].waitingListId].status = OFFERED

C13_NoPartialWrites == [][C13_Step]_vars

\* one join was offered and has its task, another was queued and has none
C13_Witness ==
    /\ last.op = "joinWaitingList" /\ last.result = "ok" /\ last.status = WAITING
    /\ TasksFor(scheduled, Len(waitingList)) = {}
    /\ \E i \in DOMAIN waitingList :
          /\ waitingList[i].status = OFFERED
          /\ Cardinality(TasksFor(scheduled, i)) = 1

\* offers of the event that are active at time t1 and no longer at time t2
LapsingOffers(e, t1, t2) ==
    {i \in DOMAIN waitingList :
        /\ waitingList[i].eventId = e
        /\ waitingList[i].status = OFFERED
        /\ waitingList[i].offerExpiresAt > t1
        /\ waitingList[i].offerExpiresAt <= t2}

\* C14: an unconsumed offer returns its capacity: when time passes an offer's
\* offerExpiresAt, checkAvailability's availableSpots rises by one per lapsed
\* offer; an expireOffer that expires the entry and promotes nobody keeps it
\* there, one above what it was with the offer active; an EXPIRED entry is never
\* counted in activeOffers.  With totalTickets = 2 and one sold ticket: one live
\* offer gives available = FALSE and availableSpots = 0, none gives 1.
C14_Step ==
    /\ \A e \in DOMAIN events :
          /\ checkAvailability(e).activeOffers = Cardinality(UnexpiredOffers(e))
          /\ (events[e].totalTickets = 2 /\ Cardinality(TicketsSold(e)) = 1) =>
                /\ Cardinality(UnexpiredOffers(e)) = 1 =>
                      (~checkAvailability(e).available
                       /\ checkAvailability(e).availableSpots = 0)
                /\ Cardinality(UnexpiredOffers(e)) = 0 =>
                      (checkAvailability(e).available
                       /\ checkAvailability(e).availableSpots = 1)
    /\ last'.op = "tick" =>
          \A e \in DOMAIN events :
              checkAvailability(e)'.availableSpots
                = checkAvailability(e).availableSpots
                    + Cardinality(LapsingOffers(e, now, now'))
    /\ \A e \in DOMAIN events, id \in DOMAIN waitingList :
          (/\ last'.op = "expireOffer" /\ last'.result = "expired" /\ last'.promoted = 0
           /\ last'.waitingListId = id /\ waitingList[id].eventId = e) =>
              /\ waitingList[id].offerExpiresAt <= now
              /\ waitingList'[id].status = EXPIRED
              /\ checkAvailability(e)'.availableSpots = checkAvailability(e).availableSpots
              /\ checkAvailability(e)'.availableSpots
                   = events[e].totalTickets
                       - (Cardinality(TicketsSold(e))
                          + Cardinality(UnexpiredOffers(e) \cup {id})) + 1

C14_OfferReturnsCapacity == [][C14_Step]_vars

\* totalTickets = 2 with one VALID ticket: the other offer lapsed, was expired
\* with nobody waiting, and one spot is available again
C14_Witness ==
    /\ last.op = "expireOffer" /\ last.result = "expired" /\ last.promoted = 0
    /\ waitingList[last.waitingListId].status = EXPIRED
    /\ events[waitingList[last.waitingListId].eventId].totalTickets = 2
    /\ Cardinality(TicketsSold(waitingList[last.waitingListId].eventId)) = 1
    /\ checkAvailability(waitingList[last.waitingListId].eventId).availableSpots = 1
    /\ checkAvailability(waitingList[last.waitingListId].eventId).available

\* ---- fair delivery ----
\* The clock keeps advancing while an offer is still to lapse (past MaxTime
\* only for that), and the scheduler delivers every due task
\* (ctx.scheduler.runAfter is durable).
TickLive ==
    /\ \/ now < MaxTime
       \/ \E i \in DOMAIN waitingList :
             waitingList[i].status = OFFERED /\ waitingList[i].offerExpiresAt > now
    /\ now' = now + 1
    /\ last' = [op |-> "tick"]
    /\ UNCHANGED <<events, tickets, waitingList, scheduled>>

DeliverTask(k) == k \in DOMAIN scheduled /\ expireOffer(k)

NextLive ==
    \/ \E n \in 0..MaxTotal : create(n)
    \/ \E e \in EventIds, u \in Users : joinWaitingList(e, u)
    \/ \E k \in 1..MaxEntries : DeliverTask(k)
    \/ \E id \in DOMAIN waitingList : purchaseTicket(id)
    \/ TickLive

SpecLive ==
    /\ Init
    /\ [][NextLive]_vars
    /\ WF_vars(TickLive)
    /\ \A k \in 1..MaxEntries : WF_vars(DeliverTask(k))

\* C15: under fair delivery and advancing time every OFFERED entry eventually
\* is EXPIRED or PURCHASED, and no entry is expired before its offerExpiresAt.
C15_NotBeforeExpiry ==
    \A i \in DOMAIN waitingList :
        (waitingList[i].status = OFFERED /\ waitingList'[i].status = EXPIRED)
            => now >= waitingList[i].offerExpiresAt

C15_OffersEnd ==
    /\ \A i \in 1..MaxEntries :
          (i \in DOMAIN waitingList /\ waitingList[i].status = OFFERED)
             ~> (i \in DOMAIN waitingList /\ waitingList[i].status \in {EXPIRED, PURCHASED})
    /\ [][C15_NotBeforeExpiry]_vars

\* a promoted entry's own offer lapsed and a delivery expired it
C15_Witness ==
    /\ last.op = "expireOffer" /\ last.result = "expired"
    /\ waitingList[last.waitingListId].status = EXPIRED
    /\ waitingList[last.waitingListId].offerExpiresAt <= now
    /\ \E k \in DOMAIN scheduled :
          /\ k > 1
          /\ scheduled[k].waitingListId = last.waitingListId
          /\ scheduled[k].waitingListId < Len(waitingList)
          /\ scheduled[k].runs >= 1

\* C16: a join fails with NotFound when the event does not exist and with
\* AlreadyQueued when the user has an active entry, it fails in no other case,
\* and a failed join leaves events, tickets, entries and tasks unchanged.
C16_Step ==
    \A e \in EventIds, u \in Users :
        (last'.op = "joinWaitingList" /\ last'.eventId = e /\ last'.userId = u) =>
            LET active == \E i \in EntriesOf(u, e) : waitingList[i].status # EXPIRED
            IN  /\ active => last'.result = "AlreadyQueued"
                /\ e \notin DOMAIN events => last'.result = "NotFound"
                /\ (~active /\ e \in DOMAIN events) => last'.result = "ok"
                /\ last'.result \in {"AlreadyQueued", "NotFound"} =>
                      UNCHANGED <<events, tickets, waitingList, scheduled>>

C16_FailedJoin == [][C16_Step]_vars

\* a join failed with AlreadyQueued while offers and tasks existed
C16_Witness ==
    /\ last.op = "joinWaitingList" /\ last.result = "AlreadyQueued"
    /\ \E i \in EntriesOf(last.userId, last.eventId) : waitingList[i].status = PURCHASED
    /\ scheduled # << >>
    /\ tickets # << >>

\* C17: a WAITING entry carries no offerExpiresAt; an OFFERED entry carries
\* one, set to now + OFFER_TTL in the step that made it OFFERED and unchanged
\* for as long as it stays OFFERED.
C17_Step ==
    \A i \in DOMAIN waitingList' :
        /\ waitingList'[i].status = WAITING => "offerExpiresAt" \notin DOMAIN waitingList'[i]
        /\ waitingList'[i].status = OFFERED =>
              /\ "offerExpiresAt" \in DOMAIN waitingList'[i]
              /\ IF i \in DOMAIN waitingList /\ waitingList[i].status = OFFERED
                 THEN waitingList'[i].offerExpiresAt = waitingList[i].offerExpiresAt
                 ELSE waitingList'[i].offerExpiresAt = now + TICKET_OFFER

C17_ExpiryField == [][C17_Step]_vars

\* after the clock moved, a join was offered while another entry is WAITING
C17_Witness ==
    /\ last.op = "joinWaitingList" /\ last.result = "ok" /\ last.status = OFFERED
    /\ now > 1
    /\ waitingList[Len(waitingList)].offerExpiresAt = now + TICKET_OFFER
    /\ \E i \in DOMAIN waitingList : waitingList[i].status = WAITING

\* C18: checkAvailability and getEventAvailability change nothing, whether they
\* succeed or fail with NotFound (which they do exactly for a missing event),
\* and asking again in the same state at the same time gives the same result.
C18_Step ==
    \A e \in EventIds :
        (last'.op \in {"checkAvailability", "getEventAvailability"} /\ last'.eventId = e) =>
            /\ UNCHANGED <<events, tickets, waitingList, scheduled, now>>
            /\ (last'.result = "NotFound") = (e \notin DOMAIN events)
            /\ (last'.result = "ok" /\ last'.op = "checkAvailability")
                  => last'.ret = checkAvailability(e)'
            /\ (last'.result = "ok" /\ last'.op = "getEventAvailability")
                  => last'.ret = getEventAvailability(e)'

C18_ReadOnlyQueries == [][C18_Step]_vars

\* checkAvailability ran while an offer had lapsed and was not yet expired
C18_Witness ==
    /\ last.op = "checkAvailability" /\ last.result = "ok"
    /\ \E i \in DOMAIN waitingList :
          /\ waitingList[i].eventId = last.eventId
          /\ waitingList[i].status = OFFERED
          /\ waitingList[i].offerExpiresAt <= now

\* C19: joinWaitingList never inserts an OFFERED entry for an event while an
\* older entry of that event is still WAITING.
C19_Step ==
    (last'.op = "joinWaitingList" /\ last'.result = "ok" /\ last'.status = OFFERED) =>
        ~ \E i \in DOMAIN waitingList :
              /\ waitingList[i].eventId = last'.eventId
              /\ waitingList[i].status = WAITING

C19_NoOvertaking == [][C19_Step]_vars

\* C20: once a user's entry for an event is PURCHASED, every join by that user
\* for that event fails with AlreadyQueued and inserts nothing, and a pair
\* never has more than one PURCHASED entry.
C20_Step ==
    \A e \in EventIds, u \in Users :
        /\ (/\ last'.op = "joinWaitingList" /\ last'.eventId = e /\ last'.userId = u
            /\ \E i \in EntriesOf(u, e) : waitingList[i].status = PURCHASED)
              => (last'.result = "AlreadyQueued" /\ waitingList' = waitingList)
        /\ Cardinality({i \in DOMAIN waitingList' :
                           /\ waitingList'[i].userId = u
                           /\ waitingList'[i].eventId = e
                           /\ waitingList'[i].status = PURCHASED}) <= 1

C20_PurchasedBlocksJoin == [][C20_Step]_vars

\* a buyer tried to join again after the offer window had closed
C20_Witness ==
    /\ last.op = "joinWaitingList" /\ last.result = "AlreadyQueued"
    /\ \A i \in EntriesOf(last.userId, last.eventId) :
          waitingList[i].status \in {PURCHASED, EXPIRED}
    /\ \E i \in EntriesOf(last.userId, last.eventId) :
          /\ waitingList[i].status = PURCHASED
          /\ waitingList[i].offerExpiresAt < now
====
